---- MODULE Spec2Model ----
(***************************************************************************)
(* Model of the provisioning / teardown orchestrator of k8s-FastApi:       *)
(*   src/k8s_manager.py       K8sManager (remote resource operations)      *)
(*   src/resource_manager.py  MinecraftServerManager (facade, rollback)    *)
(*   src/main.py              HTTP endpoints calling the facade            *)
(*                                                                         *)
(* The remote platform is a store of objects addressed by (kind, name).    *)
(* A read or delete of an absent object answers 404 (NotFound), a create   *)
(* of a present object answers 409 (Conflict), and any call may fail with  *)
(* another platform error (ApiFault).  Claim binding and directory-task    *)
(* completion are asynchronous platform transitions.                       *)
(*                                                                         *)
(* Names are sequences of one-character strings, so that name              *)
(* normalisation and name derivation are computed, not assumed.            *)
(***************************************************************************)
EXTENDS Integers, Sequences, FiniteSets, TLC

VARIABLES
    cluster,   \* the platform: [objs: (kind,name) -> [uid, phase], nextUid,
               \* latency: the seconds it takes to answer a polled read]
    th,        \* per caller: position in the running call and its locals
    faults,    \* platform errors (other than 404/409) injected so far
    calls,     \* calls started so far
    hist       \* what the calls so far have established (history)

vars == <<cluster, th, faults, calls, hist>>

(***************************************************************************)
(* Bounds of the model.                                                    *)
(***************************************************************************)
MaxFaults == 1
MaxCalls == 3
\* longest input of the specification of _sanitize_name
MaxNameLen == 4
\* the seconds the platform takes to answer a request of a wait's iteration,
\* one value for a whole run: at once, 1 s, 4 s
Latencies == {0, 1, 4}
\* the same for the runs of overlapping calls: a slow platform
ConcLatencies == {18}

(***************************************************************************)
(* Program constants.                                                      *)
(***************************************************************************)
WAIT_TIMEOUT == 60
POLL_INTERVAL == 2
\* V1JobSpec(ttl_seconds_after_finished=60)
TTL_SECONDS == 60

Callers == {"c1", "c2"}
MainCaller == "c1"

(***************************************************************************)
(* Characters and names.                                                   *)
(***************************************************************************)
LowerCase == {"a", "b", "d"}
UpperCase == {"A", "D"}
Digits == {"1"}
AllowedChars == LowerCase \cup Digits \cup {"-"}
\* the characters of the inputs of SpecSanitize: a lower-case letter, an
\* upper-case letter, a digit, the dash and a character outside [a-z0-9-]
Alphabet == {"a", "A", "1", "-", "_"}

\* str.lower() on one character
Lower(ch) ==
    CASE ch = "A" -> "a"
      [] ch = "D" -> "d"
      [] OTHER -> ch

\* re.sub(r'[^a-z0-9-]', '', name.lower())
RECURSIVE KeepAllowed(_)
KeepAllowed(s) ==
    IF s = <<>> THEN <<>>
    ELSE LET h == Lower(Head(s))
         IN  (IF h \in AllowedChars THEN <<h>> ELSE <<>>) \o KeepAllowed(Tail(s))

\* str.strip('-')
RECURSIVE StripLeft(_)
StripLeft(s) ==
    IF s # <<>> /\ Head(s) = "-" THEN StripLeft(Tail(s)) ELSE s

RECURSIVE StripRight(_)
StripRight(s) ==
    IF s # <<>> /\ s[Len(s)] = "-" THEN StripRight(SubSeq(s, 1, Len(s) - 1)) ELSE s

StripDashes(s) == StripRight(StripLeft(s))

\* mutant: runs of dashes are left as they are
CollapseNone(s) == s

\* re.sub(r'-+', '-', s)
RECURSIVE CollapseDashes(_)
CollapseDashes(s) ==
    IF Len(s) < 2 THEN s
    ELSE IF s[1] = "-" /\ s[2] = "-" THEN CollapseDashes(Tail(s))
    ELSE <<s[1]>> \o CollapseDashes(Tail(s))

_sanitize_name(name) == CollapseDashes(StripDashes(KeepAllowed(name)))

\* the derived names
PV_PREFIX == <<"p", "v", "-">>
SVC_SUFFIX == <<"-", "s", "v", "c">>
SERVERTAP_PREFIX == <<"s", "e", "r", "v", "e", "r", "t", "a", "p", "-">>
INGRESS_SUFFIX == <<"-", "i", "n", "g", "r", "e", "s", "s">>
SERVERTAP_CONFIG_PREFIX == SERVERTAP_PREFIX \o <<"c", "o", "n", "f", "i", "g", "-">>
JOB_PREFIX == <<"c", "r", "e", "a", "t", "e", "-", "n", "f", "s", "-", "d", "i", "r", "-">>
PAPER_CM == <<"p", "a", "p", "e", "r", "-", "g", "l", "o", "b", "a", "l", "-",
              "c", "o", "n", "f", "i", "g">>

\* GAME_DOMAIN = os.getenv("GAME_DOMAIN", "mc.msdca.shop")
GAME_DOMAIN == <<"m", "c", ".", "m", "s", "d", "c", "a", ".", "s", "h", "o", "p">>
API_HOST_SUFFIX == <<"-", "a", "p", "i", ".">>
HTTP_SCHEME == <<"h", "t", "t", "p", ":", "/", "/">>

PvName(pvc_name) == PV_PREFIX \o pvc_name
ServiceName(pod_name) == pod_name \o SVC_SUFFIX
\* mutant: the route name without its prefix
IngressNameBare(pod_name) == pod_name \o INGRESS_SUFFIX

IngressName(pod_name) == SERVERTAP_PREFIX \o pod_name \o INGRESS_SUFFIX
\* host = f"{pod_name}-api.{GAME_DOMAIN}"
IngressHost(pod_name) == pod_name \o API_HOST_SUFFIX \o GAME_DOMAIN
\* "game_url": f"{deployment_name}.{GAME_DOMAIN}"
GameUrl(deployment_name) == deployment_name \o <<".">> \o GAME_DOMAIN
\* "api_url": f"http://{deployment_name}-api.{GAME_DOMAIN}"
ApiUrl(deployment_name) ==
    HTTP_SCHEME \o deployment_name \o API_HOST_SUFFIX \o GAME_DOMAIN
ServertapCmName(pod_name) == SERVERTAP_CONFIG_PREFIX \o pod_name
JobName(pvc_name) == JOB_PREFIX \o pvc_name

\* caller-supplied names (before normalisation)
PodInputs == { <<"a">>, <<"A", "_">>, <<"b">> }
PvcInputs == { <<"D", "-">> }

ServerIds == { _sanitize_name(x) : x \in PodInputs }
StorageIds == { _sanitize_name(x) : x \in PvcInputs }

(***************************************************************************)
(* The platform: objects addressed by (kind, name).                        *)
(***************************************************************************)
StorageKinds == {"PV", "PVC"}

Key(kind, name) == <<kind, name>>

Exists(cl, kind, name) == Key(kind, name) \in DOMAIN cl.objs

Phase(cl, kind, name) == cl.objs[Key(kind, name)].phase

Remove(cl, kind, name) ==
    [cl EXCEPT !.objs = [k \in (DOMAIN cl.objs) \ {Key(kind, name)} |-> cl.objs[k]]]

\* a new object; volumes and claims get a fresh uid, which tells a recreated
\* object from the one it replaces
Put(cl, kind, name, phase) ==
    IF kind \in StorageKinds
    THEN [objs |-> (Key(kind, name) :> [uid |-> cl.nextUid, phase |-> phase]) @@ cl.objs,
          nextUid |-> cl.nextUid + 1,
          latency |-> cl.latency]
    ELSE [cl EXCEPT !.objs = (Key(kind, name) :> [uid |-> 0, phase |-> phase]) @@ cl.objs]

SetPhase(cl, kind, name, phase) ==
    [cl EXCEPT !.objs[Key(kind, name)].phase = phase]

\* the ephemeral set of server identity p
EphemeralKeys(p) ==
    { Key("Deployment", p), Key("Service", ServiceName(p)),
      Key("Ingress", IngressName(p)), Key("ConfigMap", ServertapCmName(p)) }

NoEphemeral(cl, p) == EphemeralKeys(p) \cap DOMAIN cl.objs = {}

AllEphemeral(cl, p) == EphemeralKeys(p) \subseteq DOMAIN cl.objs

\* the volumes and claims of a cluster, by uid
Storage(cl) ==
    [k \in {q \in DOMAIN cl.objs : q[1] \in StorageKinds} |-> cl.objs[k].uid]

(***************************************************************************)
(* Outcomes of remote calls.  An outcome is the platform after the call,   *)
(* the exception raised ("none" when the call returned), the value         *)
(* returned, the number of injected platform errors consumed and the       *)
(* write requests issued, in order.  b is the number of platform errors    *)
(* that may still be injected.                                             *)
(***************************************************************************)
Out(cl, exc, ret, used, log) ==
    [cl |-> cl, exc |-> exc, ret |-> ret, used |-> used, log |-> log]

Faulty(cl, b, log) ==
    IF b > 0 THEN {Out(cl, "ApiFault", "-", 1, log)} ELSE {}

ApiRead(cl, kind, name, b) ==
    { IF Exists(cl, kind, name)
      THEN Out(cl, "none", Phase(cl, kind, name), 0, <<>>)
      ELSE Out(cl, "NotFound", "-", 0, <<>>) }
    \cup Faulty(cl, b, <<>>)

ApiDelete(cl, kind, name, b) ==
    LET req == << <<"delete", kind, name>> >>
    IN  { IF Exists(cl, kind, name)
          THEN Out(Remove(cl, kind, name), "none", "-", 0, req)
          ELSE Out(cl, "NotFound", "-", 0, req) }
        \cup Faulty(cl, b, req)

ApiCreate(cl, kind, name, phase, b) ==
    LET req == << <<"create", kind, name>> >>
    IN  { IF Exists(cl, kind, name)
          THEN Out(cl, "Conflict", "-", 0, req)
          ELSE Out(Put(cl, kind, name, phase), "none", "-", 0, req) }
        \cup Faulty(cl, b, req)

ApiPatch(cl, kind, name, b) ==
    LET req == << <<"patch", kind, name>> >>
    IN  { IF Exists(cl, kind, name)
          THEN Out(cl, "none", "-", 0, req)
          ELSE Out(cl, "NotFound", "-", 0, req) }
        \cup Faulty(cl, b, req)

\* r, then q: the accumulated outcome
After(r, q) == [q EXCEPT !.used = r.used + @, !.log = r.log \o @]

\* statement sequencing: F runs on each outcome of R that raised nothing
Then(R, b, F(_, _)) ==
    UNION { IF r.exc = "none"
            THEN { After(r, q) : q \in F(r.cl, b - r.used) }
            ELSE {r} : r \in R }

\* try: R  except ApiException as e: if e.status != 404: raise
\* (a 404 is swallowed, anything else propagates)
Swallow404(R) ==
    { IF r.exc = "NotFound" THEN [r EXCEPT !.exc = "none"] ELSE r : r \in R }

(***************************************************************************)
(* K8sManager                                                              *)
(***************************************************************************)
\* mutant: the probe never finds the claim
pvc_exists_never(cl, pvc_name, b) ==
    { IF r.exc \in {"none", "NotFound"}
      THEN [r EXCEPT !.exc = "none", !.ret = "False"]
      ELSE r
      : r \in ApiRead(cl, "PVC", pvc_name, b) }

pvc_exists(cl, pvc_name, b) ==
    { CASE r.exc = "none" -> [r EXCEPT !.ret = "True"]
        [] r.exc = "NotFound" -> [r EXCEPT !.exc = "none", !.ret = "False"]
        [] OTHER -> r
      : r \in ApiRead(cl, "PVC", pvc_name, b) }

\* create_persistent_volume_claim up to the wait it ends with
\* mutant: a claim that is already there is taken as created
create_persistent_volume_claim_tolerant(cl, pvc_name, b) ==
    { IF r.exc = "Conflict" THEN [r EXCEPT !.exc = "none"] ELSE r
      : r \in ApiCreate(cl, "PVC", pvc_name, "Pending", b) }

create_persistent_volume_claim(cl, pvc_name, b) ==
    ApiCreate(cl, "PVC", pvc_name, "Pending", b)

\* the object's data is config.yml with `key: {api_key}`; the model keeps
\* the key as the datum of the ConfigMap object
create_servertap_configmap(cl, pod_name, api_key, b) ==
    ApiCreate(cl, "ConfigMap", ServertapCmName(pod_name), api_key, b)

\* mutant: the Deployment is reported created and is not
create_deployment_unsent(cl, deployment_name, b) ==
    {Out(cl, "none", "-", 0, << <<"create", "Deployment", deployment_name>> >>)}

create_deployment(cl, deployment_name, b) ==
    ApiCreate(cl, "Deployment", deployment_name, "-", b)

create_service(cl, pod_name, b) ==
    ApiCreate(cl, "Service", ServiceName(pod_name), "-", b)

\* the route's one rule has host IngressHost(pod_name); the model keeps the
\* host as the datum of the Ingress object
create_ingress(cl, pod_name, b) ==
    ApiCreate(cl, "Ingress", IngressName(pod_name), IngressHost(pod_name), b)

\* the dict create_minecraft_resources returns
create_minecraft_result(deployment_name, pvc_name) ==
    [status |-> "success", pod_name |-> deployment_name, pvc_name |-> pvc_name,
     game_url |-> GameUrl(deployment_name), api_url |-> ApiUrl(deployment_name)]

\* mutant: a delete without the tolerance of NotFound
_delete_resource_strict(cl, kind, name, b) == ApiDelete(cl, kind, name, b)

_delete_resource(cl, kind, name, b) == Swallow404(ApiDelete(cl, kind, name, b))

(***************************************************************************)
(* A method that issues several requests is the list of its requests, in   *)
(* order: <<"delete", kind, name>> is a delete that tolerates a 404,       *)
(* <<"create", kind, name>> a create, <<"read", kind, name>> the read that *)
(* guards a create (when the object is found the method returns).  Any     *)
(* other answer than these raises out of the method.  Each request is a    *)
(* call to the platform of its own: between two of them other callers and  *)
(* the platform may act.                                                   *)
(***************************************************************************)
\* the state a created object starts in
InitialPhase(kind) ==
    CASE kind = "Job" -> "Active"
      [] kind = "PV" -> "Available"
      [] kind = "PVC" -> "Pending"
      [] OTHER -> "-"

\* one request on the platform cl
Request(cl, q, b) ==
    CASE q[1] = "delete" ->
            IF q[2] \in {"PV", "Job"}
            THEN Swallow404(ApiDelete(cl, q[2], q[3], b))
            ELSE _delete_resource(cl, q[2], q[3], b)
      [] q[1] = "create" -> ApiCreate(cl, q[2], q[3], InitialPhase(q[2]), b)
      [] q[1] = "read" ->
            { CASE r.exc = "none" -> [r EXCEPT !.ret = "found"]
                [] r.exc = "NotFound" -> [r EXCEPT !.exc = "none"]
                [] OTHER -> r
              : r \in ApiRead(cl, q[2], q[3], b) }

\* the method goes on with its next request after answer r
GoesOn(r) == r.exc = "none" /\ r.ret # "found"

\* the requests qs one after the other on cl, nothing happening in between
RECURSIVE Requests(_, _, _)
Requests(cl, qs, b) ==
    IF qs = <<>> THEN {Out(cl, "none", "-", 0, <<>>)}
    ELSE UNION { IF GoesOn(r)
                 THEN { After(r, q) : q \in Requests(r.cl, Tail(qs), b - r.used) }
                 ELSE { [r EXCEPT !.ret = "-"] }
                 : r \in Request(cl, Head(qs), b) }

\* mutant: the volume is created without the read before it
create_persistent_volume_blind_requests(pvc_name) ==
    << <<"create", "PV", PvName(pvc_name)>> >>

\* read_persistent_volume (found: return), then create_persistent_volume
create_persistent_volume_requests(pvc_name) ==
    << <<"read", "PV", PvName(pvc_name)>>, <<"create", "PV", PvName(pvc_name)>> >>

create_persistent_volume(cl, pvc_name, b) ==
    Requests(cl, create_persistent_volume_requests(pvc_name), b)

\* mutant: the cleanup also removes the shared config object
cleanup_ephemeral_and_shared_requests(pod_name) ==
    << <<"delete", "Deployment", pod_name>>,
       <<"delete", "Service", ServiceName(pod_name)>>,
       <<"delete", "Ingress", IngressName(pod_name)>>,
       <<"delete", "ConfigMap", ServertapCmName(pod_name)>>,
       <<"delete", "ConfigMap", PAPER_CM>> >>

cleanup_ephemeral_requests(pod_name) ==
    << <<"delete", "Deployment", pod_name>>,
       <<"delete", "Service", ServiceName(pod_name)>>,
       <<"delete", "Ingress", IngressName(pod_name)>>,
       <<"delete", "ConfigMap", ServertapCmName(pod_name)>> >>

cleanup_ephemeral_resources(cl, pod_name, b) ==
    Requests(cl, cleanup_ephemeral_requests(pod_name), b)

\* mutant: the claim is deleted, its volume is left
delete_claim_only_requests(pvc_name) ==
    << <<"delete", "PVC", _sanitize_name(pvc_name)>> >>

delete_persistent_data_requests(pvc_name) ==
    << <<"delete", "PVC", _sanitize_name(pvc_name)>>,
       <<"delete", "PV", PvName(_sanitize_name(pvc_name))>> >>

delete_persistent_data(cl, pvc_name, b) ==
    Requests(cl, delete_persistent_data_requests(pvc_name), b)

\* mutant: the storage is deleted before the ephemeral set
cleanup_all_storage_first_requests(pod_name, pvc_name) ==
    delete_persistent_data_requests(_sanitize_name(pvc_name))
    \o cleanup_ephemeral_requests(_sanitize_name(pod_name))

\* mutant: the full teardown stops after the claim
cleanup_all_keep_volume_requests(pod_name, pvc_name) ==
    cleanup_ephemeral_requests(_sanitize_name(pod_name))
    \o << <<"delete", "PVC", _sanitize_name(_sanitize_name(pvc_name))>> >>

\* both names are normalised, then cleanup_ephemeral_resources and
\* delete_persistent_data
cleanup_all_requests(pod_name, pvc_name) ==
    cleanup_ephemeral_requests(_sanitize_name(pod_name))
    \o delete_persistent_data_requests(_sanitize_name(pvc_name))

cleanup_all_resources(cl, pod_name, pvc_name, b) ==
    Requests(cl, cleanup_all_requests(pod_name, pvc_name), b)

\* mutant: the new task is created without the delete before it
create_nfs_directory_job_keep_requests(pvc_name) ==
    << <<"create", "Job", JobName(pvc_name)>> >>

\* the delete of the old task, a 404 ignored; time.sleep(2) when the delete
\* was accepted, which sends nothing: the time between the two requests,
\* in which the platform and the other callers go on; then the create
create_nfs_directory_job_requests(pvc_name) ==
    << <<"delete", "Job", JobName(pvc_name)>>, <<"create", "Job", JobName(pvc_name)>> >>

create_nfs_directory_job(cl, pvc_name, b) ==
    Requests(cl, create_nfs_directory_job_requests(pvc_name), b)

\* list_persistent_volume_claims(label_selector="type=minecraft-storage"):
\* the names of the claims (every claim of the namespace is created with the label)
\* list_namespaced_pod(namespace, limit=1): the listing, or any failure (an
\* error answer of the API, no connection)
ApiList(cl, b) ==
    {Out(cl, "none", "-", 0, <<>>)}
    \cup (IF b > 0
          THEN { Out(cl, e, "-", 1, <<>>) : e \in {"ApiFault", "ConnectionError"} }
          ELSE {})

\* mutant: the failure of the read is not caught
check_connection_raising(cl, b) ==
    { IF r.exc = "none" THEN [r EXCEPT !.ret = "healthy"] ELSE r : r \in ApiList(cl, b) }

\* try: list; return {"status": "healthy"}  except Exception: return
\* {"status": "unhealthy"}
check_connection(cl, b) ==
    { IF r.exc = "none"
      THEN [r EXCEPT !.ret = "healthy"]
      ELSE [r EXCEPT !.exc = "none", !.ret = "unhealthy"] : r \in ApiList(cl, b) }

list_persistent_volume_claims(cl) ==
    { k[2] : k \in {q \in DOMAIN cl.objs : q[1] = "PVC"} }

\* create_or_update_paper_configmap, the statement after a successful read: the
\* patch sits inside the try block, so a 404 from it also leads to the create
paper_patch(cl, b) ==
    UNION { IF r.exc = "NotFound"
            THEN { After(r, q) : q \in ApiCreate(cl, "ConfigMap", PAPER_CM, "-", b - r.used) }
            ELSE {r}
            : r \in ApiPatch(cl, "ConfigMap", PAPER_CM, b) }

\* create_or_update_paper_configmap, the except branch of a 404 read
paper_create(cl, b) == ApiCreate(cl, "ConfigMap", PAPER_CM, "-", b)

(***************************************************************************)
(* Callers.  A caller is between calls at "done"; the record keeps the     *)
(* last call's inputs, outcome and write log until the next call starts.   *)
(***************************************************************************)
Idle ==
    [pc |-> "done", op |-> "none", pod_name |-> <<>>, pvc_name |-> <<>>,
     deployment_name |-> <<>>, pvc |-> <<>>, elapsed |-> 0,
     i |-> 0,           \* requests of the current statement answered so far
     exc |-> "none", failedAt |-> "none", result |-> "none", raisedAt |-> "none",
     log |-> <<>>, pre |-> <<>>, snap |-> <<>>, probe |-> "-", listing |-> {},
     reuse |-> FALSE, fresh |-> FALSE, resume |-> FALSE, resumeStore |-> <<>>,
     uid0 |-> 0,
     ret |-> "-",       \* the value the call returned
     used |-> 0,        \* injected platform answers consumed by the call
     failLen |-> 0,     \* length of the write log when the failing step raised
     seen |-> {},       \* what the polled reads of the call's waits observed
     lastRead |-> "-",  \* how the polled read of the latest wait iteration ended
     key |-> "-",       \* the servertap_key of the call
     stale |-> FALSE,   \* the ephemeral set of the identity was there at the start
     missing |-> {},    \* what of the ephemeral set was absent when success was returned
     made |-> {},       \* what the successful provision just before, of the same names, created
     staleTask |-> "-"] \* phase of the directory task create_nfs_directory_job found,
                        \* kept until the step after its wait

(***************************************************************************)
(* History.  provisioned: the storage identities a provision returned      *)
(* success for, with no delete of their claim or volume issued since.      *)
(* tornDown: the storage identities a full teardown returned success for,  *)
(* with no create of their claim or volume issued since.  chain: stage 1   *)
(* after a successful provision (its identities and the volumes and claims *)
(* it left), stage 2 after a successful ephemeral cleanup of that server   *)
(* identity right after it.                                                *)
(***************************************************************************)
NoChain == [stage |-> 0, pod |-> <<>>, pvc |-> <<>>, store |-> <<>>]

\* the objects the create requests of a write log are for
Created(log) ==
    { <<log[i][2], log[i][3]>> : i \in {j \in DOMAIN log : log[j][1] = "create"} }

\* the write log has a request of this verb on the claim or the volume of s
Touches(log, verb, s) ==
    \E i \in DOMAIN log :
       /\ log[i][1] = verb
       /\ \/ log[i][2] = "PVC" /\ log[i][3] = s
          \/ log[i][2] = "PV" /\ log[i][3] = PvName(s)

HistLog(h, log) ==
    [h EXCEPT !.provisioned = @ \ {s \in StorageIds : Touches(log, "delete", s)},
              !.tornDown = @ \ {s \in StorageIds : Touches(log, "create", s)}]

Budget == MaxFaults - faults

\* request.servertap_key: every call brings a key of its own, told apart by
\* the number of the call
ApiKeyOf(n) == ToString(n)

CanStart(c) == th[c].pc = "done" /\ calls < MaxCalls

\* a call that issues at most one request: it runs in one step and returns
\* or raises
Finish(c, op, pod, pvc, r) ==
    /\ cluster' = r.cl
    /\ faults' = faults + r.used
    /\ calls' = calls + 1
    /\ hist' = [HistLog(hist, r.log) EXCEPT !.chain = NoChain]
    /\ th' = [th EXCEPT ![c] =
                [Idle EXCEPT !.op = op, !.pod_name = pod, !.pvc_name = pvc,
                             !.pre = Storage(cluster), !.log = r.log,
                             !.exc = r.exc, !.ret = r.ret, !.used = r.used,
                             !.stale = AllEphemeral(cluster, _sanitize_name(pod)),
                             !.fresh = _sanitize_name(pvc) \in hist.tornDown,
                             !.raisedAt = IF r.exc = "none" THEN "none" ELSE op,
                             !.result = IF r.exc = "none" THEN "success" ELSE r.exc]]

\* an ephemeral cleanup of the server identity a provision has just
\* returned success for
Resumes(op, pod) ==
    /\ op = "cleanup_ephemeral_resources"
    /\ hist.chain.stage = 1
    /\ hist.chain.pod = pod

\* entry of a call that issues a list of requests: no request yet
Begin(c, op, pod, pvc) ==
    /\ calls' = calls + 1
    /\ hist' = [hist EXCEPT !.chain = IF Resumes(op, pod) THEN @ ELSE NoChain]
    /\ th' = [th EXCEPT ![c] =
                [Idle EXCEPT !.pc = "requests", !.op = op,
                             !.pod_name = pod, !.pvc_name = pvc,
                             !.pre = Storage(cluster),
                             !.made = IF /\ hist.chain.stage = 1
                                         /\ th[c].op = "create_server"
                                         /\ th[c].result = "success"
                                         /\ th[c].pod_name = pod
                                         /\ th[c].pvc_name = pvc
                                      THEN Created(th[c].log) ELSE {},
                             !.stale = AllEphemeral(cluster, _sanitize_name(pod)),
                             !.fresh = _sanitize_name(pvc) \in hist.tornDown]]
    /\ UNCHANGED <<cluster, faults>>

\* the last request of such a call was answered, or a request raised: the
\* call returns or raises
End(c, r) ==
    LET op == th[c].op
    IN  /\ cluster' = r.cl
        /\ faults' = faults + r.used
        /\ UNCHANGED calls
        /\ hist' = [HistLog(hist, r.log) EXCEPT
                      !.tornDown = IF op = "delete_server" /\ r.exc = "none"
                                   THEN @ \cup {_sanitize_name(th[c].pvc_name)} ELSE @,
                      !.chain = IF Resumes(op, th[c].pod_name) /\ r.exc = "none"
                                THEN [hist.chain EXCEPT !.stage = 2]
                                ELSE NoChain]
        /\ th' = [th EXCEPT ![c] =
                    [@ EXCEPT !.pc = "done", !.i = 0, !.log = @ \o r.log,
                              !.exc = r.exc, !.used = @ + r.used,
                              !.raisedAt = IF r.exc = "none" THEN "none" ELSE op,
                              !.result = IF r.exc = "none" THEN "success" ELSE r.exc]]

\* one statement of create_minecraft_resources: on to okpc when it returns
\* ("done": create_minecraft_resources returned its result); an exception
\* leaves create_minecraft_resources for the handler of create_server
\* the directory task that is there when create_nfs_directory_job starts,
\* remembered until the wait for the new task has reported
TaskFound(c) ==
    CASE th[c].pc = "nfs_job" /\ th[c].i = 0 ->
            IF Exists(cluster, "Job", JobName(th[c].pvc))
            THEN Phase(cluster, "Job", JobName(th[c].pvc))
            ELSE "-"
      [] th[c].pc \in {"nfs_job", "job_wait"} -> th[c].staleTask
      [] OTHER -> "-"

MoveObs(c, r, okpc, probe, seen, lastRead) ==
    /\ cluster' = r.cl
    /\ faults' = faults + r.used
    /\ UNCHANGED calls
    /\ hist' = IF r.exc = "none" /\ okpc = "done"
               THEN [HistLog(hist, r.log) EXCEPT
                       !.provisioned = @ \cup {th[c].pvc},
                       !.chain = [stage |-> 1, pod |-> th[c].deployment_name,
                                  pvc |-> th[c].pvc, store |-> Storage(r.cl)]]
               ELSE HistLog(hist, r.log)
    /\ th' = [th EXCEPT ![c] =
                IF r.exc = "none"
                THEN [@ EXCEPT !.pc = okpc, !.i = 0, !.log = @ \o r.log, !.elapsed = 0,
                               !.probe = probe, !.used = @ + r.used,
                               !.seen = seen, !.lastRead = lastRead,
                               !.staleTask = TaskFound(c),
                               !.ret = IF okpc = "done"
                                       THEN create_minecraft_result(
                                                th[c].deployment_name, th[c].pvc)
                                       ELSE @,
                               !.missing = IF okpc = "done"
                                           THEN EphemeralKeys(th[c].deployment_name)
                                                \ DOMAIN r.cl.objs
                                           ELSE @,
                               !.result = IF okpc = "done" THEN "success" ELSE "none"]
                ELSE [@ EXCEPT !.pc = "rollback", !.i = 0, !.log = @ \o r.log,
                               !.elapsed = 0,
                               !.exc = r.exc, !.failedAt = th[c].pc,
                               !.used = @ + r.used,
                               !.failLen = Len(th[c].log \o r.log),
                               !.seen = seen, !.lastRead = lastRead,
                               !.staleTask = TaskFound(c),
                               !.snap = Storage(cluster)]]

\* a statement outside the waits
Move(c, r, okpc, probe) == MoveObs(c, r, okpc, probe, th[c].seen, th[c].lastRead)

Advance(c, r, okpc) == Move(c, r, okpc, th[c].probe)

\* a request of a statement was answered and the statement goes on with its
\* next request
NextRequest(c, r) ==
    /\ cluster' = r.cl
    /\ faults' = faults + r.used
    /\ UNCHANGED calls
    /\ hist' = HistLog(hist, r.log)
    /\ th' = [th EXCEPT ![c].i = @ + 1,
                        ![c].log = @ \o r.log,
                        ![c].used = @ + r.used,
                        ![c].staleTask = TaskFound(c)]

\* a statement of create_minecraft_resources that issues the requests qs:
\* its next request; after the last one, or when the method returns early,
\* on to okpc; an exception leaves for the handler
Statement(c, qs, okpc) ==
    IF qs = <<>>
    THEN Advance(c, Out(cluster, "none", "-", 0, <<>>), okpc)
    ELSE \E r \in Request(cluster, qs[th[c].i + 1], Budget) :
            IF GoesOn(r) /\ th[c].i + 1 < Len(qs)
            THEN NextRequest(c, r)
            ELSE Advance(c, [r EXCEPT !.ret = "-"], okpc)

\* a call that is a list of requests qs: its next request; it returns after
\* the last one and raises when one raises
Call(c, qs) ==
    \E r \in Request(cluster, qs[th[c].i + 1], Budget) :
        IF GoesOn(r) /\ th[c].i + 1 < Len(qs)
        THEN NextRequest(c, r)
        ELSE End(c, [r EXCEPT !.ret = "-"])

\* the caller is inside the call op, between two of its requests
Inside(c, op) == th[c].op = op /\ th[c].pc = "requests"

\* the polled read of a wait: as any read, and the platform may answer 404
\* for an object that was created a moment ago (an injected answer, as the
\* platform errors are)
PollRead(cl, kind, name, b) ==
    ApiRead(cl, kind, name, b)
    \cup (IF b > 0 /\ Exists(cl, kind, name)
          THEN {Out(cl, "NotFound", "-", 1, <<>>)}
          ELSE {})

\* time.sleep(2) and the next iteration of the loop.  The loop tests
\* time.time() - start_time: the clock of the wall, on which the n requests
\* of the iteration have taken their time too
KeepPolling(c, r, n, seen, lastRead) ==
    /\ th' = [th EXCEPT ![c].elapsed = @ + n * cluster.latency + POLL_INTERVAL,
                        ![c].used = @ + r.used,
                        ![c].seen = seen,
                        ![c].lastRead = lastRead]
    /\ faults' = faults + r.used
    /\ UNCHANGED <<cluster, hist>>

(***************************************************************************)
(* MinecraftServerManager.create_server                                    *)
(***************************************************************************)
\* main.create_server -> create_server -> create_minecraft_resources: the two
\* names are normalised on entry
StartCreateServer(c, pod, pvc) ==
    /\ CanStart(c)
    /\ calls' = calls + 1
    /\ th' = [th EXCEPT ![c] =
                [Idle EXCEPT !.pc = "cmr_cleanup", !.op = "create_server",
                             !.pod_name = pod, !.pvc_name = pvc,
                             !.deployment_name = _sanitize_name(pod),
                             !.pvc = _sanitize_name(pvc),
                             !.pre = Storage(cluster),
                             !.key = ApiKeyOf(calls + 1),
                             !.stale = AllEphemeral(cluster, _sanitize_name(pod)),
                             !.uid0 = cluster.nextUid,
                             !.reuse = _sanitize_name(pvc) \in hist.provisioned,
                             !.fresh = _sanitize_name(pvc) \in hist.tornDown,
                             !.resume = /\ hist.chain.stage = 2
                                        /\ hist.chain.pvc = _sanitize_name(pvc),
                             !.resumeStore = IF /\ hist.chain.stage = 2
                                                /\ hist.chain.pvc = _sanitize_name(pvc)
                                             THEN hist.chain.store ELSE <<>>]]
    /\ hist' = [hist EXCEPT !.chain = NoChain]
    /\ UNCHANGED <<cluster, faults>>

\* mutant: step 0 is left out
CmrNoCleanup(c) ==
    /\ th[c].pc = "cmr_cleanup"
    /\ Statement(c, <<>>, "paper_read")

\* mutant: step 0 tears down the storage too
CmrCleanupAll(c) ==
    /\ th[c].pc = "cmr_cleanup"
    /\ Statement(c, cleanup_all_requests(th[c].deployment_name, th[c].pvc), "paper_read")

\* step 0: the stale ephemeral set of the sanitized identity, one delete
\* request at a time
CmrCleanup(c) ==
    /\ th[c].pc = "cmr_cleanup"
    /\ Statement(c, cleanup_ephemeral_requests(th[c].deployment_name), "paper_read")

\* create_or_update_paper_configmap: the read
PaperRead(c) ==
    /\ th[c].pc = "paper_read"
    /\ \E r \in ApiRead(cluster, "ConfigMap", PAPER_CM, Budget) :
          IF r.exc = "NotFound"
          THEN Advance(c, [r EXCEPT !.exc = "none"], "paper_create")
          ELSE Advance(c, r, "paper_patch")

\* create_or_update_paper_configmap: the object was read, patch it
PaperPatch(c) ==
    /\ th[c].pc = "paper_patch"
    /\ \E r \in paper_patch(cluster, Budget) : Advance(c, r, "servertap_cm")

\* create_or_update_paper_configmap: the read answered 404, create it
PaperCreate(c) ==
    /\ th[c].pc = "paper_create"
    /\ \E r \in paper_create(cluster, Budget) : Advance(c, r, "servertap_cm")

ServertapCm(c) ==
    /\ th[c].pc = "servertap_cm"
    /\ \E r \in create_servertap_configmap(cluster, th[c].deployment_name,
                                            th[c].key, Budget) :
          Advance(c, r, "pvc_probe")

\* if not self.pvc_exists(pvc_name): ...
PvcProbe(c) ==
    /\ th[c].pc = "pvc_probe"
    /\ \E r \in pvc_exists(cluster, th[c].pvc, Budget) :
          Move(c, r, IF r.ret = "True" THEN "deployment" ELSE "nfs_job", r.ret)

\* create_nfs_directory_job up to its wait: the delete of the old task,
\* then (after the sleep, when there was one) the create of the new one
NfsJob(c) ==
    /\ th[c].pc = "nfs_job"
    /\ Statement(c, create_nfs_directory_job_requests(th[c].pvc), "job_wait")

\* create_persistent_volume: the read, then the create when it answered 404
CreatePv(c) ==
    /\ th[c].pc = "pv_create"
    /\ Statement(c, create_persistent_volume_requests(th[c].pvc), "pvc_create")

CreatePvc(c) ==
    /\ th[c].pc = "pvc_create"
    /\ \E r \in create_persistent_volume_claim(cluster, th[c].pvc, Budget) :
          Advance(c, r, "pvc_wait")

CreateDeployment(c) ==
    /\ th[c].pc = "deployment"
    /\ \E r \in create_deployment(cluster, th[c].deployment_name, Budget) :
          Advance(c, r, "service")

\* mutant: create_minecraft_resources returns after the Service
CreateServiceReturns(c) ==
    /\ th[c].pc = "service"
    /\ \E r \in create_service(cluster, th[c].deployment_name, Budget) :
          Advance(c, r, "done")

CreateService(c) ==
    /\ th[c].pc = "service"
    /\ \E r \in create_service(cluster, th[c].deployment_name, Budget) :
          Advance(c, r, "ingress")

\* the last statement: create_minecraft_resources returns its result
CreateIngress(c) ==
    /\ th[c].pc = "ingress"
    /\ \E r \in create_ingress(cluster, th[c].deployment_name, Budget) :
          Advance(c, r, "done")

\* mutant: when the deadline has passed the wait for the task returns
JobWaitPollLenient(c) ==
    /\ th[c].pc = "job_wait"
    /\ UNCHANGED calls
    /\ IF th[c].elapsed >= WAIT_TIMEOUT
       THEN MoveObs(c, Out(cluster, "none", "-", 0, <<>>), "pv_create",
                    th[c].probe, th[c].seen, "-")
       ELSE \E r \in PollRead(cluster, "Job", JobName(th[c].pvc), Budget) :
              CASE r.exc = "none" /\ r.ret = "Succeeded" ->
                      MoveObs(c, r, "pv_create", th[c].probe,
                              th[c].seen \cup {"task_succeeded"}, "true")
                [] r.exc = "none" /\ r.ret \in {"Retrying", "Failed"} ->
                      MoveObs(c, Out(cluster, "TaskFailure", "-", 0, <<>>),
                              "pv_create", th[c].probe, th[c].seen, "false")
                [] r.exc = "ApiFault" ->
                      MoveObs(c, r, "pv_create", th[c].probe, th[c].seen, "ApiFault")
                [] OTHER ->
                      KeepPolling(c, r, 1, th[c].seen, "false")

\* _wait_for_job_completion, one iteration of the loop.  The pods of the task
\* are not objects of the model: whether the diagnostic fetch finds a pod, and
\* how the read of its log ends, is the platform's choice.
JobWaitPoll(c) ==
    /\ th[c].pc = "job_wait"
    /\ UNCHANGED calls
    /\ IF th[c].elapsed >= WAIT_TIMEOUT
       THEN MoveObs(c, Out(cluster, "Timeout", "-", 0, <<>>), "pv_create",
                    th[c].probe, th[c].seen, "-")
       ELSE \E r \in PollRead(cluster, "Job", JobName(th[c].pvc), Budget) :
              CASE r.exc = "none" /\ r.ret = "Succeeded" ->
                      MoveObs(c, r, "pv_create", th[c].probe,
                              th[c].seen \cup {"task_succeeded"}, "true")
                [] r.exc = "none" /\ r.ret \in {"Retrying", "Failed"} ->
                      LET seen == IF r.ret = "Failed"
                                  THEN th[c].seen \cup {"task_failed"}
                                  ELSE th[c].seen
                      IN  \E e \in {"TaskFailure", "NotFound"}
                                   \cup (IF Budget > 0 THEN {"ApiFault"} ELSE {}) :
                             IF e = "NotFound"
                             THEN \E n \in {2, 3} : KeepPolling(c, r, n, seen, "false")
                             ELSE MoveObs(c, Out(cluster, e, "-",
                                                 IF e = "ApiFault" THEN 1 ELSE 0, <<>>),
                                          "pv_create", th[c].probe, seen, "false")
                [] r.exc = "ApiFault" ->
                      MoveObs(c, r, "pv_create", th[c].probe, th[c].seen, "ApiFault")
                [] r.exc = "NotFound" ->
                      KeepPolling(c, r, 1, th[c].seen \cup {"read_not_found"}, "NotFound")
                [] OTHER ->
                      KeepPolling(c, r, 1, th[c].seen, "false")

\* mutant: a 404 of the polled read ends the wait
PvcWaitPollStrict(c) ==
    /\ th[c].pc = "pvc_wait"
    /\ UNCHANGED calls
    /\ IF th[c].elapsed >= WAIT_TIMEOUT
       THEN MoveObs(c, Out(cluster, "Timeout", "-", 0, <<>>), "deployment",
                    th[c].probe, th[c].seen, "-")
       ELSE \E r \in PollRead(cluster, "PVC", th[c].pvc, Budget) :
              CASE r.exc = "none" /\ r.ret = "Bound" ->
                      MoveObs(c, r, "deployment", th[c].probe,
                              th[c].seen \cup {"claim_bound"}, "true")
                [] r.exc \in {"ApiFault", "NotFound"} ->
                      MoveObs(c, r, "deployment", th[c].probe, th[c].seen, r.exc)
                [] OTHER ->
                      KeepPolling(c, r, 1, th[c].seen, "false")

\* mutant: when the deadline has passed the wait for the claim returns
PvcWaitPollLenient(c) ==
    /\ th[c].pc = "pvc_wait"
    /\ UNCHANGED calls
    /\ IF th[c].elapsed >= WAIT_TIMEOUT
       THEN MoveObs(c, Out(cluster, "none", "-", 0, <<>>), "deployment",
                    th[c].probe, th[c].seen, "-")
       ELSE \E r \in PollRead(cluster, "PVC", th[c].pvc, Budget) :
              CASE r.exc = "none" /\ r.ret = "Bound" ->
                      MoveObs(c, r, "deployment", th[c].probe,
                              th[c].seen \cup {"claim_bound"}, "true")
                [] r.exc = "ApiFault" ->
                      MoveObs(c, r, "deployment", th[c].probe, th[c].seen, "ApiFault")
                [] r.exc = "NotFound" ->
                      KeepPolling(c, r, 1, th[c].seen \cup {"read_not_found"}, "NotFound")
                [] OTHER ->
                      KeepPolling(c, r, 1, th[c].seen, "false")

\* _wait_for_pvc_bound, one iteration of the loop
PvcWaitPoll(c) ==
    /\ th[c].pc = "pvc_wait"
    /\ UNCHANGED calls
    /\ IF th[c].elapsed >= WAIT_TIMEOUT
       THEN MoveObs(c, Out(cluster, "Timeout", "-", 0, <<>>), "deployment",
                    th[c].probe, th[c].seen, "-")
       ELSE \E r \in PollRead(cluster, "PVC", th[c].pvc, Budget) :
              CASE r.exc = "none" /\ r.ret = "Bound" ->
                      MoveObs(c, r, "deployment", th[c].probe,
                              th[c].seen \cup {"claim_bound"}, "true")
                [] r.exc = "ApiFault" ->
                      MoveObs(c, r, "deployment", th[c].probe, th[c].seen, "ApiFault")
                [] r.exc = "NotFound" ->
                      KeepPolling(c, r, 1, th[c].seen \cup {"read_not_found"}, "NotFound")
                [] OTHER ->
                      KeepPolling(c, r, 1, th[c].seen, "false")

\* except Exception as e: self.k8s.cleanup_ephemeral_resources(pod_name); raise e
\* pod_name is the name as the caller supplied it.  An exception of the cleanup
\* leaves the handler in place of e.
\* mutant: the handler tears down the storage too
rollback_cleanup_all_requests(pod_name, pvc_name) ==
    cleanup_all_requests(pod_name, pvc_name)

\* mutant: after the cleanup the handler tries the Deployment again
rollback_cleanup_retry_requests(pod_name, pvc_name) ==
    cleanup_ephemeral_requests(pod_name)
    \o << <<"create", "Deployment", _sanitize_name(pod_name)>> >>

rollback_cleanup_requests(pod_name, pvc_name) ==
    cleanup_ephemeral_requests(pod_name)

rollback_cleanup(cl, pod_name, pvc_name, b) ==
    Requests(cl, rollback_cleanup_requests(pod_name, pvc_name), b)

\* the handler, one delete request at a time; after the last one the
\* original exception is raised again
Rollback(c) ==
    /\ th[c].pc = "rollback"
    /\ UNCHANGED calls
    /\ LET qs == rollback_cleanup_requests(th[c].pod_name, th[c].pvc_name)
       IN  \E r \in Request(cluster, qs[th[c].i + 1], Budget) :
              IF GoesOn(r) /\ th[c].i + 1 < Len(qs)
              THEN NextRequest(c, r)
              ELSE /\ cluster' = r.cl
                   /\ faults' = faults + r.used
                   /\ hist' = HistLog(hist, r.log)
                   /\ th' = [th EXCEPT ![c] =
                               [@ EXCEPT !.pc = "done", !.i = 0, !.log = @ \o r.log,
                                         !.used = @ + r.used, !.staleTask = "-",
                                         !.result = IF r.exc = "none" THEN th[c].exc
                                                    ELSE r.exc,
                                         !.raisedAt = IF r.exc = "none" THEN th[c].failedAt
                                                      ELSE "rollback"]]

(***************************************************************************)
(* The other operations                                                    *)
(***************************************************************************)
\* main.delete_server -> MinecraftServerManager.delete_server
\*   -> K8sManager.cleanup_all_resources
DeleteServer(c, pod, pvc) ==
    /\ CanStart(c)
    /\ Begin(c, "delete_server", pod, pvc)

\* cleanup_all_resources, one delete request at a time
CleanupAllResources(c) ==
    /\ Inside(c, "delete_server")
    /\ Call(c, cleanup_all_requests(th[c].pod_name, th[c].pvc_name))

\* main.delete_volume -> delete_server_data -> K8sManager.delete_persistent_data
DeleteServerData(c, pvc) ==
    /\ CanStart(c)
    /\ Begin(c, "delete_server_data", <<>>, pvc)

\* delete_persistent_data, one delete request at a time
DeletePersistentData(c) ==
    /\ Inside(c, "delete_server_data")
    /\ Call(c, delete_persistent_data_requests(th[c].pvc_name))

\* main.pause_server calls server_manager.pause_server(pod_name=pod_name);
\* MinecraftServerManager defines no pause_server, so the attribute lookup
\* raises AttributeError and no remote call is issued
pause_server(cl, pod_name, b) == { Out(cl, "AttributeError", "-", 0, <<>>) }

PauseServer(c, pod) ==
    /\ CanStart(c)
    /\ \E r \in pause_server(cluster, pod, Budget) :
          Finish(c, "pause_server", pod, <<>>, r)

\* K8sManager.cleanup_ephemeral_resources called on its own (the ephemeral
\* cleanup that a pause stands for); the name is used as given
CleanupEphemeral(c, pod) ==
    /\ CanStart(c)
    /\ Begin(c, "cleanup_ephemeral_resources", pod, <<>>)

\* cleanup_ephemeral_resources, one delete request at a time
CleanupEphemeralResources(c) ==
    /\ Inside(c, "cleanup_ephemeral_resources")
    /\ Call(c, cleanup_ephemeral_requests(th[c].pod_name))

\* main.health_check -> _health_check_sync -> K8sManager.check_connection; the
\* returned dict is wrapped in a HealthResponse
HealthCheck(c) ==
    /\ CanStart(c)
    /\ \E r \in check_connection(cluster, Budget) :
          Finish(c, "health_check", <<>>, <<>>, r)

\* main.list_volumes -> list_all_servers_data -> list_persistent_volume_claims
ListVolumes(c) ==
    /\ CanStart(c)
    /\ \E r \in {Out(cluster, "none", "-", 0, <<>>)} \cup Faulty(cluster, Budget, <<>>) :
          /\ cluster' = r.cl
          /\ faults' = faults + r.used
          /\ calls' = calls + 1
          /\ hist' = [hist EXCEPT !.chain = NoChain]
          /\ th' = [th EXCEPT ![c] =
                      [Idle EXCEPT !.op = "list_volumes", !.pre = Storage(cluster),
                                   !.exc = r.exc, !.used = r.used,
                                   !.raisedAt = IF r.exc = "none" THEN "none"
                                                ELSE "list_volumes",
                                   !.result = IF r.exc = "none" THEN "success" ELSE r.exc,
                                   !.listing = IF r.exc = "none"
                                               THEN list_persistent_volume_claims(cluster)
                                               ELSE {}]]

(***************************************************************************)
(* The platform's own transitions                                          *)
(***************************************************************************)
\* a pending claim whose named volume exists becomes Bound
BindPvc ==
    \E k \in DOMAIN cluster.objs :
       /\ k[1] = "PVC"
       /\ cluster.objs[k].phase = "Pending"
       /\ Exists(cluster, "PV", PvName(k[2]))
       /\ cluster' = SetPhase(cluster, "PVC", k[2], "Bound")
       /\ UNCHANGED <<th, faults, calls, hist>>

\* the directory task: an attempt fails and the platform retries (status.failed
\* is set, the task is not finished), an attempt succeeds, or the retry budget
\* is exhausted
JobAttemptFails ==
    \E k \in DOMAIN cluster.objs :
       /\ k[1] = "Job"
       /\ cluster.objs[k].phase = "Active"
       /\ cluster' = SetPhase(cluster, "Job", k[2], "Retrying")
       /\ UNCHANGED <<th, faults, calls, hist>>

JobSucceeds ==
    \E k \in DOMAIN cluster.objs :
       /\ k[1] = "Job"
       /\ cluster.objs[k].phase \in {"Active", "Retrying"}
       /\ cluster' = SetPhase(cluster, "Job", k[2], "Succeeded")
       /\ UNCHANGED <<th, faults, calls, hist>>

JobExhausted ==
    \E k \in DOMAIN cluster.objs :
       /\ k[1] = "Job"
       /\ cluster.objs[k].phase = "Retrying"
       /\ cluster' = SetPhase(cluster, "Job", k[2], "Failed")
       /\ UNCHANGED <<th, faults, calls, hist>>

\* ttl_seconds_after_finished: the platform removes a task TTL_SECONDS after
\* it finished, succeeded or failed.  The model has no clock outside the
\* waits: the removal may come at any time, except that a wait under way on
\* that task reads it again before, its iterations being shorter than the TTL
JobTtl ==
    \E k \in DOMAIN cluster.objs :
       /\ k[1] = "Job"
       /\ cluster.objs[k].phase \in {"Succeeded", "Failed"}
       /\ \A c \in Callers :
             (th[c].pc = "job_wait" /\ JobName(th[c].pvc) = k[2])
             => 3 * cluster.latency + POLL_INTERVAL >= TTL_SECONDS
       /\ cluster' = Remove(cluster, "Job", k[2])
       /\ UNCHANGED <<th, faults, calls, hist>>

Platform == BindPvc \/ JobAttemptFails \/ JobSucceeds \/ JobExhausted \/ JobTtl

(***************************************************************************)
(* Specifications                                                          *)
(***************************************************************************)
Init ==
    /\ \E l \in Latencies : cluster = [objs |-> <<>>, nextUid |-> 1, latency |-> l]
    /\ th = [c \in Callers |-> Idle]
    /\ faults = 0
    /\ calls = 0
    /\ hist = [provisioned |-> {}, tornDown |-> {}, chain |-> NoChain]

ProvisionStep(c) ==
    \/ CmrCleanup(c)
    \/ PaperRead(c)
    \/ PaperPatch(c)
    \/ PaperCreate(c)
    \/ ServertapCm(c)
    \/ PvcProbe(c)
    \/ NfsJob(c)
    \/ JobWaitPoll(c)
    \/ CreatePv(c)
    \/ CreatePvc(c)
    \/ PvcWaitPoll(c)
    \/ CreateDeployment(c)
    \/ CreateService(c)
    \/ CreateIngress(c)
    \/ Rollback(c)

Provision(c) ==
    \/ \E pod \in PodInputs, pvc \in PvcInputs : StartCreateServer(c, pod, pvc)
    \/ ProvisionStep(c)

\* the other calls, for server names of the set pods
OtherCalls(c, pods) ==
    \/ \E pod \in pods, pvc \in PvcInputs : DeleteServer(c, pod, pvc)
    \/ \E pvc \in PvcInputs : DeleteServerData(c, pvc)
    \/ \E pod \in pods : PauseServer(c, pod)
    \/ \E pod \in pods : CleanupEphemeral(c, pod)
    \/ CleanupAllResources(c)
    \/ DeletePersistentData(c)
    \/ CleanupEphemeralResources(c)
    \/ ListVolumes(c)
    \/ HealthCheck(c)

Others(c) == OtherCalls(c, PodInputs)

\* one caller, one call at a time
Next == Provision(MainCaller) \/ Others(MainCaller) \/ Platform

Spec == Init /\ [][Next]_vars

\* Provision calls of one caller, two of them, with the platform's own
\* transitions.  The waits are loops of sequential code on the thread that
\* runs the call: an iteration that can be taken is taken.
InitLive ==
    /\ \E l \in Latencies : cluster = [objs |-> <<>>, nextUid |-> 1, latency |-> l]
    /\ th = [c \in Callers |-> Idle]
    /\ faults = 0
    /\ calls = MaxCalls - 2
    /\ hist = [provisioned |-> {}, tornDown |-> {}, chain |-> NoChain]

NextLive == Provision(MainCaller) \/ Platform

SpecLive ==
    /\ InitLive /\ [][NextLive]_vars
    /\ WF_vars(JobWaitPoll(MainCaller))
    /\ WF_vars(PvcWaitPoll(MainCaller))

(***************************************************************************)
(* _sanitize_name on its own: the input is any string over Alphabet of at  *)
(* most MaxNameLen characters; the function is applied to it, and again to *)
(* its result (cleanup_all_resources normalises the storage identity and   *)
(* hands it to delete_persistent_data, which normalises it again).         *)
(***************************************************************************)
NameInputs == UNION { [1..n -> Alphabet] : n \in 0..MaxNameLen }

InitSanitize ==
    /\ cluster = [objs |-> <<>>, nextUid |-> 1, latency |-> 0]
    /\ faults = 0
    /\ calls = 0
    /\ hist = [provisioned |-> {}, tornDown |-> {}, chain |-> NoChain]
    /\ \E x \in NameInputs :
          th = [c \in Callers |->
                  IF c = MainCaller
                  THEN [Idle EXCEPT !.op = "_sanitize_name", !.pc = "sanitize",
                                    !.pvc_name = x]
                  ELSE Idle]

Sanitize(c) ==
    /\ th[c].op = "_sanitize_name" /\ th[c].pc = "sanitize"
    /\ th' = [th EXCEPT ![c].pc = "sanitize_again",
                        ![c].pvc = _sanitize_name(th[c].pvc_name)]
    /\ UNCHANGED <<cluster, faults, calls, hist>>

SanitizeAgain(c) ==
    /\ th[c].op = "_sanitize_name" /\ th[c].pc = "sanitize_again"
    /\ th' = [th EXCEPT ![c].pc = "done",
                        ![c].ret = _sanitize_name(th[c].pvc)]
    /\ UNCHANGED <<cluster, faults, calls, hist>>

NextSanitize == Sanitize(MainCaller) \/ SanitizeAgain(MainCaller)

SpecSanitize == InitSanitize /\ [][NextSanitize]_vars

\* calls of several callers, of every endpoint, interleaved request by
\* request (the endpoints are synchronous handlers, which the server runs on
\* worker threads).  Two calls remain and the platform injects no error: the
\* failures left are conflicts, task failures, timeouts, and the
\* AttributeError of pause_server.
InitConc ==
    /\ \E l \in ConcLatencies : cluster = [objs |-> <<>>, nextUid |-> 1, latency |-> l]
    /\ th = [c \in Callers |-> Idle]
    /\ faults = MaxFaults
    /\ calls = MaxCalls - 2
    /\ hist = [provisioned |-> {}, tornDown |-> {}, chain |-> NoChain]

\* the identities two overlapping calls are made for: the same one or two
\* different ones (which of the two callers has which makes no difference)
ConcPodInputs(c) == IF c = MainCaller THEN { <<"a">> } ELSE { <<"a">>, <<"b">> }

ProvisionConc(c) ==
    \/ \E pod \in ConcPodInputs(c), pvc \in PvcInputs : StartCreateServer(c, pod, pvc)
    \/ ProvisionStep(c)

OthersConc(c) == OtherCalls(c, ConcPodInputs(c))

NextConc == (\E c \in Callers : ProvisionConc(c) \/ OthersConc(c)) \/ Platform

SpecConc == InitConc /\ [][NextConc]_vars

(***************************************************************************)
(* Properties                                                              *)
(***************************************************************************)
\* the call op of caller c has returned or raised, and no other call followed
Returned(c, op) == th[c].op = op /\ th[c].pc = "done" /\ th[c].result # "none"

\* the write log has a request of this verb on an object of these kinds
Issued(log, verb, kinds) ==
    \E i \in DOMAIN log : log[i][1] = verb /\ log[i][2] \in kinds

\* every volume and claim of store is in the cluster, the same object
Kept(store, cl) ==
    \A k \in DOMAIN store : k \in DOMAIN cl.objs /\ cl.objs[k].uid = store[k]

\* C1: when a provision fails at the Deployment, Service or Ingress create, then
\* on return none of the four ephemeral resources of the sanitized identity
\* exists, and the volumes and claims are as they were before the failing step.
C1_RollbackInvariant ==
    \A c \in Callers :
       (Returned(c, "create_server")
            /\ th[c].failedAt \in {"deployment", "service", "ingress"})
       => /\ NoEphemeral(cluster, th[c].deployment_name)
          /\ Storage(cluster) = th[c].snap

\* C2: a provision that returns success leaves all four ephemeral resources,
\* the shared config object and a Bound claim; a provision that reports failure
\* leaves none of the four ephemeral resources and has deleted no volume or claim.
C2_NoPartialSuccess ==
    \A c \in Callers :
       Returned(c, "create_server")
       => IF th[c].result = "success"
          THEN /\ AllEphemeral(cluster, th[c].deployment_name)
               /\ Exists(cluster, "ConfigMap", PAPER_CM)
               /\ Exists(cluster, "PVC", th[c].pvc)
               /\ Phase(cluster, "PVC", th[c].pvc) = "Bound"
          ELSE /\ NoEphemeral(cluster, th[c].deployment_name)
               /\ Kept(th[c].pre, cluster)

\* C3: at every point of a provision call, and after it however it ended, no
\* delete of a volume or a claim has been issued by the call and every volume
\* and claim that existed when the call started still exists, the same object.
C3_ProvisionKeepsStorage ==
    \A c \in Callers :
       th[c].op = "create_server"
       => /\ ~Issued(th[c].log, "delete", StorageKinds)
          /\ Kept(th[c].pre, cluster)

\* a provision failed and was rolled back while the claim and volume existed
C3_Witness ==
    \E c \in Callers :
       /\ Returned(c, "create_server")
       /\ th[c].failedAt # "none"
       /\ Key("PVC", th[c].pvc) \in DOMAIN th[c].pre
       /\ Key("PV", PvName(th[c].pvc)) \in DOMAIN th[c].pre

\* C4: when a provision fails, the failure that reaches the caller is the one
\* raised by the failing step, whatever happens during the compensating deletes.
C4_OriginalFailureSurfaced ==
    \A c \in Callers :
       (Returned(c, "create_server") /\ th[c].failedAt # "none")
       => /\ th[c].result = th[c].exc
          /\ th[c].raisedAt = th[c].failedAt

\* C5: a provision with a storage identity for which an earlier provision
\* returned success (and whose claim and volume no delete was issued for since)
\* finds the claim at the probe, issues no create of the directory task, of the
\* volume or of the claim, and leaves the one volume/claim pair as it was.
C5_IdempotentReuse ==
    \A c \in Callers :
       (th[c].op = "create_server" /\ th[c].reuse)
       => /\ th[c].probe \in {"-", "True"}
          /\ (th[c].pc \in {"deployment", "service", "ingress"}
                 \/ th[c].result = "success") => th[c].probe = "True"
          /\ ~Issued(th[c].log, "create", {"Job", "PV", "PVC"})
          /\ Key("PVC", th[c].pvc) \in DOMAIN th[c].pre
          /\ Key("PV", PvName(th[c].pvc)) \in DOMAIN th[c].pre
          /\ Storage(cluster) = th[c].pre

\* a second provision with the storage identity, for another server identity,
\* returned success
C5_Witness ==
    \E c \in Callers :
       /\ Returned(c, "create_server")
       /\ th[c].reuse
       /\ th[c].result = "success"
       /\ th[c].probe = "True"
       /\ \E p \in ServerIds \ {th[c].deployment_name} : AllEphemeral(cluster, p)

\* C6: after a successful provision and then an ephemeral cleanup of its server
\* identity the volumes and claims are the objects the provision left, and a
\* following provision with the same storage identity issues no create and no
\* delete of a volume or claim and runs on those very objects.
C6_DataPreservation ==
    /\ hist.chain.stage = 2 => Storage(cluster) = hist.chain.store
    /\ \A c \in Callers :
          (th[c].op = "create_server" /\ th[c].resume)
          => /\ Key("PVC", th[c].pvc) \in DOMAIN th[c].resumeStore
             /\ Key("PV", PvName(th[c].pvc)) \in DOMAIN th[c].resumeStore
             /\ Storage(cluster) = th[c].resumeStore
             /\ ~Issued(th[c].log, "create", StorageKinds)
             /\ ~Issued(th[c].log, "delete", StorageKinds)
             /\ th[c].probe \in {"-", "True"}

\* provision, ephemeral cleanup, provision again: the last one returned success
C6_Witness ==
    \E c \in Callers :
       /\ Returned(c, "create_server")
       /\ th[c].resume
       /\ th[c].result = "success"
       /\ AllEphemeral(cluster, th[c].deployment_name)

\* C7: the pause operation of the calling layer, when the platform raises no
\* error other than NotFound, returns an acknowledgement, leaves none of the
\* four ephemeral resources of the identity and leaves the storage unchanged.
C7_PauseAcknowledged ==
    \A c \in Callers :
       (Returned(c, "pause_server") /\ th[c].result # "ApiFault")
       => /\ th[c].result = "success"
          /\ NoEphemeral(cluster, _sanitize_name(th[c].pod_name))
          /\ Storage(cluster) = th[c].pre

\* C8: after a successful full teardown for a storage identity (and until a
\* create of its claim or volume is issued) neither its claim nor its volume
\* exists and no storage listing contains it; a provision with that identity
\* does not short-circuit at the probe, and when it succeeds it has created the
\* directory task, a new volume and a new claim.
C8_Irreversibility ==
    /\ \A s \in hist.tornDown :
          /\ ~Exists(cluster, "PVC", s)
          /\ ~Exists(cluster, "PV", PvName(s))
          /\ s \notin list_persistent_volume_claims(cluster)
          /\ \A c \in Callers : th[c].op = "list_volumes" => s \notin th[c].listing
    /\ \A c \in Callers :
          (th[c].op = "create_server" /\ th[c].fresh)
          => /\ th[c].probe \in {"-", "False"}
             /\ th[c].result = "success"
                => /\ \E i \in DOMAIN th[c].log :
                         th[c].log[i] = <<"create", "Job", JobName(th[c].pvc)>>
                   /\ \E i \in DOMAIN th[c].log :
                         th[c].log[i] = <<"create", "PV", PvName(th[c].pvc)>>
                   /\ \E i \in DOMAIN th[c].log :
                         th[c].log[i] = <<"create", "PVC", th[c].pvc>>
                   /\ cluster.objs[Key("PVC", th[c].pvc)].uid >= th[c].uid0
                   /\ cluster.objs[Key("PV", PvName(th[c].pvc))].uid >= th[c].uid0

\* a pair was created, torn down, and a later provision with the storage
\* identity returned success
C8_Witness ==
    \E c \in Callers :
       /\ Returned(c, "create_server")
       /\ th[c].fresh
       /\ th[c].result = "success"
       /\ th[c].uid0 > 2

\* C9: when the wait for a newly created claim times out, the provision fails
\* with the timeout, no Deployment, Service or Ingress create was issued, and
\* on return no ephemeral resource of the identity is left.
C9_TimeoutLeavesNothing ==
    \A c \in Callers :
       (Returned(c, "create_server")
            /\ th[c].failedAt = "pvc_wait" /\ th[c].exc = "Timeout")
       => /\ th[c].result = "Timeout"
          /\ ~Issued(th[c].log, "create", {"Deployment", "Service", "Ingress"})
          /\ NoEphemeral(cluster, th[c].deployment_name)

\* C10: the read and the create or patch of the shared config object are one
\* critical section: two provision calls are never both between the read and
\* the write, and no create of the object fails on a conflict.
C10_SharedConfigExclusive ==
    /\ \A c1, c2 \in Callers :
          (c1 # c2 /\ th[c1].pc \in {"paper_patch", "paper_create"})
          => th[c2].pc \notin {"paper_patch", "paper_create"}
    /\ \A c \in Callers :
          ~(th[c].failedAt = "paper_create" /\ th[c].exc = "Conflict")

\* C11: the shared config object is never deleted by this system. No call
\* (provision, rollback, pause, full teardown, storage deletion) issues a
\* delete of it, and once it exists it exists in every later state.
C11_SharedConfigNeverDeleted ==
    [][ /\ Exists(cluster, "ConfigMap", PAPER_CM)
            => Exists(cluster', "ConfigMap", PAPER_CM)
        /\ \A c \in Callers : \A i \in DOMAIN th'[c].log :
               th'[c].log[i] # <<"delete", "ConfigMap", PAPER_CM>> ]_vars

\* the shared config object exists after a teardown that removed a server
\* and its storage
C11_Witness ==
    \E c \in Callers :
        /\ Returned(c, "delete_server")
        /\ th[c].result = "success"
        /\ th[c].pre # <<>>
        /\ Exists(cluster, "ConfigMap", PAPER_CM)

\* the objects a cleanup call is to remove
Targets(op, pod, pvc) ==
    LET p == _sanitize_name(pod)
        s == _sanitize_name(pvc)
        data == { Key("PVC", s), Key("PV", PvName(s)) }
    IN  CASE op = "cleanup_ephemeral_resources" -> EphemeralKeys(pod)
          [] op = "delete_server_data" -> data
          [] op = "delete_server" -> EphemeralKeys(p) \cup data

CleanupOps == {"cleanup_ephemeral_resources", "delete_server_data", "delete_server"}

\* C12: idempotent delete. cleanup_ephemeral_resources, delete_persistent_data
\* and cleanup_all_resources complete without error whichever of their
\* targets exist (none included, so a second run in a row succeeds too) and
\* leave none of them; a delete failure other than NotFound is propagated.
C12_IdempotentDelete ==
    \A c \in Callers : \A op \in CleanupOps :
        Returned(c, op) =>
            /\ th[c].used = 0 =>
                  /\ th[c].result = "success"
                  /\ Targets(op, th[c].pod_name, th[c].pvc_name) \cap DOMAIN cluster.objs = {}
            /\ th[c].used > 0 => th[c].result = "ApiFault"

\* a full teardown run again after a teardown of the same server: nothing
\* is left to delete, every delete is answered NotFound, the call succeeds
C12_Witness ==
    \E c \in Callers :
        /\ Returned(c, "delete_server")
        /\ th[c].fresh
        /\ DOMAIN th[c].pre = {}
        /\ th[c].used = 0
        /\ Len(th[c].log) = 6
        /\ th[c].result = "success"

\* C13: the health probe is never fatal. check_connection returns a status,
\* healthy when the platform read succeeded and unhealthy when it failed in
\* any way, and never raises.
C13_HealthProbeNeverFatal ==
    \A c \in Callers :
        Returned(c, "health_check") =>
            /\ th[c].exc = "none"
            /\ th[c].result = "success"
            /\ th[c].ret \in {"healthy", "unhealthy"}
            /\ th[c].ret = "healthy" <=> th[c].used = 0

\* a health check whose platform read failed
C13_Witness ==
    \E c \in Callers :
        /\ Returned(c, "health_check")
        /\ th[c].used = 1
        /\ th[c].ret = "unhealthy"

\* the naming contract, written out for server identity p and storage
\* identity s
Contract(p, s) ==
    [volume |-> <<"p", "v", "-">> \o s,
     service |-> p \o <<"-", "s", "v", "c">>,
     route |-> <<"s", "e", "r", "v", "e", "r", "t", "a", "p", "-">> \o p
               \o <<"-", "i", "n", "g", "r", "e", "s", "s">>,
     config |-> <<"s", "e", "r", "v", "e", "r", "t", "a", "p", "-",
                  "c", "o", "n", "f", "i", "g", "-">> \o p,
     task |-> <<"c", "r", "e", "a", "t", "e", "-", "n", "f", "s", "-",
                "d", "i", "r", "-">> \o s,
     game |-> p \o <<".">> \o GAME_DOMAIN,
     mgmt |-> p \o <<"-", "a", "p", "i", ".">> \o GAME_DOMAIN]

\* every write request of the log names its object as the contract says
NamedByContract(log, p, s) ==
    LET n == Contract(p, s)
    IN  \A i \in DOMAIN log :
          LET kind == log[i][2]
              name == log[i][3]
          IN  /\ kind = "PV" => name = n.volume
              /\ kind = "PVC" => name = s
              /\ kind = "Job" => name = n.task
              /\ kind = "Deployment" => name = p
              /\ kind = "Service" => name = n.service
              /\ kind = "Ingress" => name = n.route
              /\ kind = "ConfigMap" => name \in {n.config, PAPER_CM}

\* the requests of a successful provision and the host of its route follow
\* the contract, and so does the game address it returns
NamesOfProvision(c) ==
    LET p == th[c].deployment_name
        s == th[c].pvc
        n == Contract(p, s)
    IN  /\ NamedByContract(th[c].log, p, s)
        /\ Exists(cluster, "Ingress", n.route)
        /\ Phase(cluster, "Ingress", n.route) = n.mgmt
        /\ th[c].ret.pod_name = p
        /\ th[c].ret.pvc_name = s
        /\ th[c].ret.game_url = n.game

\* C14 (as stated): naming determinism. The names used in remote operations
\* and in the provision result are exactly pv-<s>, <p>-svc,
\* servertap-<p>-ingress, servertap-config-<p>, create-nfs-dir-<s>, game
\* address <p>.<domain> and management address <p>-api.<domain>, the latter
\* both as the route host and as the address returned to the caller.
C14_NamingAsStated ==
    \A c \in Callers :
        (Returned(c, "create_server") /\ th[c].result = "success")
        => /\ NamesOfProvision(c)
           /\ th[c].ret.api_url = Contract(th[c].deployment_name, th[c].pvc).mgmt

\* C14 (amended): as stated, except that the management address returned to
\* the caller is the URL http://<p>-api.<domain>, whose host is the route
\* host <p>-api.<domain>.
C14_NamingDeterminism ==
    \A c \in Callers :
        (Returned(c, "create_server") /\ th[c].result = "success")
        => /\ NamesOfProvision(c)
           /\ th[c].ret.api_url
                = <<"h", "t", "t", "p", ":", "/", "/">>
                  \o Contract(th[c].deployment_name, th[c].pvc).mgmt

\* a successful provision that set up storage, so that every name of the
\* contract was used, for an identity that normalisation changed
C14_Witness ==
    \E c \in Callers :
        /\ Returned(c, "create_server")
        /\ th[c].result = "success"
        /\ th[c].pod_name # th[c].deployment_name
        /\ \A k \in {"PV", "PVC", "Job", "Deployment", "Service", "Ingress", "ConfigMap"} :
              Issued(th[c].log, "create", {k})

\* the characters of [a-z0-9-]
NameChars ==
    {"a", "b", "c", "d", "e", "f", "g", "h", "i", "j", "k", "l", "m", "n", "o",
     "p", "q", "r", "s", "t", "u", "v", "w", "x", "y", "z",
     "0", "1", "2", "3", "4", "5", "6", "7", "8", "9", "-"}

\* only characters of [a-z0-9-], no dash first or last, no two dashes in a row
WellFormedName(y) ==
    /\ \A i \in DOMAIN y : y[i] \in NameChars
    /\ y # <<>> => (y[1] # "-" /\ y[Len(y)] # "-")
    /\ \A i \in 1..(Len(y) - 1) : ~(y[i] = "-" /\ y[i + 1] = "-")

\* C15: normalisation is idempotent and its result is well formed. For every
\* input x, _sanitize_name(_sanitize_name(x)) = _sanitize_name(x), and the
\* result has only characters of [a-z0-9-], no leading or trailing dash and
\* no two consecutive dashes.
C15_SanitizeIdempotent ==
    \A c \in Callers :
        th[c].op = "_sanitize_name" =>
            /\ th[c].pc \in {"sanitize_again", "done"} => WellFormedName(th[c].pvc)
            /\ th[c].pc = "done" => th[c].ret = th[c].pvc

\* normalisation applied twice to an input with an upper-case letter and two
\* dashes in a row, whose result keeps a dash
C15_Witness ==
    \E c \in Callers :
        /\ th[c].op = "_sanitize_name" /\ th[c].pc = "done"
        /\ \E i \in DOMAIN th[c].pvc_name : th[c].pvc_name[i] = "A"
        /\ \E i \in 1..(Len(th[c].pvc_name) - 1) :
              th[c].pvc_name[i] = "-" /\ th[c].pvc_name[i + 1] = "-"
        /\ \E i \in DOMAIN th[c].pvc : th[c].pvc[i] = "-"

IsPrefix(a, b) == Len(a) <= Len(b) /\ a = SubSeq(b, 1, Len(a))

\* the write requests of create_minecraft_resources in a call of
\* create_server: the log up to the failing step, the whole log when no step
\* failed
StepLog(c) ==
    IF th[c].failedAt = "none" THEN th[c].log
    ELSE SubSeq(th[c].log, 1, th[c].failLen)

\* the write requests of a complete provision of server p on storage s, in
\* the order of the steps
ProvisionPlans(p, s) ==
    LET stale == << <<"delete", "Deployment", p>>,
                    <<"delete", "Service", ServiceName(p)>>,
                    <<"delete", "Ingress", IngressName(p)>>,
                    <<"delete", "ConfigMap", ServertapCmName(p)>> >>
        shared == { << <<"patch", "ConfigMap", PAPER_CM>> >>,
                    << <<"create", "ConfigMap", PAPER_CM>> >>,
                    << <<"patch", "ConfigMap", PAPER_CM>>,
                       <<"create", "ConfigMap", PAPER_CM>> >> }
        own == << <<"create", "ConfigMap", ServertapCmName(p)>> >>
        task == << <<"delete", "Job", JobName(s)>>, <<"create", "Job", JobName(s)>> >>
        storage == { <<>>,
                     task \o << <<"create", "PV", PvName(s)>>, <<"create", "PVC", s>> >>,
                     task \o << <<"create", "PVC", s>> >> }
        set == << <<"create", "Deployment", p>>,
                  <<"create", "Service", ServiceName(p)>>,
                  <<"create", "Ingress", IngressName(p)>> >>
    IN  { stale \o sh \o own \o st \o set : sh \in shared, st \in storage }

\* C16: step ordering of provision. The requests are issued in the order
\* stale-ephemeral deletes, shared config ensure, per-server config create,
\* storage ensure, Deployment create, Service create, Ingress create, each
\* only after the earlier ones completed without error; success is returned
\* only after the Ingress create completed.
C16_StepOrdering ==
    \A c \in Callers :
        th[c].op = "create_server" =>
            /\ \E plan \in ProvisionPlans(th[c].deployment_name, th[c].pvc) :
                  /\ IsPrefix(StepLog(c), plan)
                  /\ th[c].result = "success" => StepLog(c) = plan
            /\ th[c].result = "success"
                  => /\ th[c].failedAt = "none"
                     /\ Exists(cluster, "Ingress", IngressName(th[c].deployment_name))

\* a provision that went through every step, the storage setup included,
\* and returned success
C16_Witness ==
    \E c \in Callers :
        /\ Returned(c, "create_server")
        /\ th[c].result = "success"
        /\ Len(th[c].log) = 13
        /\ th[c].log[13] = <<"create", "Ingress", IngressName(th[c].deployment_name)>>

\* the deletes of cleanup_ephemeral_resources(name), in order
EphemeralDeletes(name) ==
    << <<"delete", "Deployment", name>>,
       <<"delete", "Service", ServiceName(name)>>,
       <<"delete", "Ingress", IngressName(name)>>,
       <<"delete", "ConfigMap", ServertapCmName(name)>> >>

\* C17: fatal failures abort the call. Once a read or write of provision
\* fails with an error other than a tolerated NotFound, or a wait times out,
\* or the directory task fails, no step is retried and no create or patch is
\* issued any more in that call; the only requests issued afterwards are the
\* compensating deletes of the ephemeral set, in the handler's order and one
\* for each request the handler has sent.
C17_FatalFailuresAbort ==
    \A c \in Callers :
        (th[c].op = "create_server" /\ th[c].failedAt # "none") =>
            LET after == SubSeq(th[c].log, th[c].failLen + 1, Len(th[c].log))
            IN  /\ th[c].pc \in {"rollback", "done"}
                /\ th[c].pc = "rollback" => Len(after) = th[c].i
                /\ \A i \in DOMAIN after : after[i][1] = "delete"
                /\ IsPrefix(after, EphemeralDeletes(th[c].pod_name))
                /\ \A i, j \in DOMAIN StepLog(c) :
                      i # j => StepLog(c)[i] # StepLog(c)[j]

\* a provision whose wait for the directory task ended in failure, after the
\* compensating deletes
C17_Witness ==
    \E c \in Callers :
        /\ Returned(c, "create_server")
        /\ th[c].failedAt = "job_wait"
        /\ th[c].exc \in {"TaskFailure", "Timeout"}
        /\ Len(th[c].log) = th[c].failLen + 4

\* the call of c has passed the storage setup that found no claim
StorageReady(c) ==
    /\ th[c].probe = "False"
    /\ th[c].failedAt = "none"
    /\ th[c].pc \in {"deployment", "service", "ingress", "done"}

\* C18: storage setup gating when the claim is absent. The volume create is
\* issued only after the directory task was observed succeeded in the same
\* call; the claim create only after the volume exists (created or found);
\* the storage step is ready only after the claim was observed Bound; a
\* failure or timeout of the task means no volume create and no claim create
\* in that call.
C18_StorageGating ==
    \A c \in Callers :
        th[c].op = "create_server" =>
            LET s == th[c].pvc
            IN  /\ (th[c].pc = "pv_create" \/ Issued(th[c].log, "create", {"PV"}))
                   => "task_succeeded" \in th[c].seen
                /\ (th[c].pc = "pvc_create" \/ Issued(th[c].log, "create", {"PVC"}))
                   => /\ "task_succeeded" \in th[c].seen
                      /\ Exists(cluster, "PV", PvName(s))
                /\ StorageReady(c)
                   => /\ "claim_bound" \in th[c].seen
                      /\ Exists(cluster, "PVC", s)
                      /\ Phase(cluster, "PVC", s) = "Bound"
                /\ (th[c].failedAt = "job_wait" \/ "task_failed" \in th[c].seen)
                   => ~Issued(th[c].log, "create", {"PV", "PVC"})

\* a provision that set up storage (task succeeded, volume and claim
\* created, claim bound) and is about to create the Deployment
C18_Witness ==
    \E c \in Callers :
        /\ th[c].op = "create_server"
        /\ th[c].pc = "deployment"
        /\ StorageReady(c)
        /\ Issued(th[c].log, "create", {"PV"})
        /\ Issued(th[c].log, "create", {"PVC"})
        /\ th[c].seen = {"task_succeeded", "claim_bound"}

Waits == {"job_wait", "pvc_wait"}

\* C19: read classification of the condition waiter. In both waits a
\* NotFound answer of the polled read counts as "condition not yet true" and
\* polling goes on; any other failure of the read ends the wait at once and
\* is propagated as fatal, without further polling.
C19_PollReadClassification ==
    \A c \in Callers :
        th[c].op = "create_server" =>
            /\ th[c].lastRead = "NotFound"
                  => /\ th[c].pc \in Waits
                     /\ th[c].failedAt = "none"
                     /\ th[c].elapsed >= POLL_INTERVAL
            /\ th[c].lastRead = "ApiFault"
                  => /\ th[c].pc \in {"rollback", "done"}
                     /\ th[c].failedAt \in Waits
                     /\ th[c].exc = "ApiFault"
                     /\ th[c].pc = "done" => th[c].result = "ApiFault"

\* the wait for the claim went on after a poll that was answered NotFound
\* and ended when a later poll found the claim Bound
C19_Witness ==
    \E c \in Callers :
        /\ th[c].op = "create_server"
        /\ th[c].pc = "deployment"
        /\ th[c].seen = {"task_succeeded", "read_not_found", "claim_bound"}
        /\ th[c].lastRead = "true"

\* what a wait leaves for when its condition was observed true, and what
\* the observation is recorded as
AfterWait(w) == IF w = "job_wait" THEN "pv_create" ELSE "deployment"
Observed(w) == IF w = "job_wait" THEN "task_succeeded" ELSE "claim_bound"

\* the time one iteration of a wait can take: the interval slept and the
\* time of its requests, one to three of them
IterationTimes == { n * cluster.latency + POLL_INTERVAL : n \in 1..3 }

\* one iteration of a wait of caller c: it polls again one interval and the
\* time of its requests later, before the deadline and without the
\* condition observed true; or it
\* returns, before the deadline and with the condition observed true by
\* this poll; or it raises, a timeout exactly when the deadline has passed
WaitIteration(c) ==
    (th[c].pc \in Waits /\ th'[c] # th[c]) =>
        \/ /\ th'[c].pc = th[c].pc
           /\ th[c].elapsed < WAIT_TIMEOUT
           /\ th'[c].elapsed - th[c].elapsed \in IterationTimes
           /\ th'[c].lastRead \in {"false", "NotFound"}
        \/ /\ th'[c].pc = AfterWait(th[c].pc)
           /\ th[c].elapsed < WAIT_TIMEOUT
           /\ th'[c].lastRead = "true"
           /\ Observed(th[c].pc) \in th'[c].seen
        \/ /\ th'[c].pc = "rollback"
           /\ th'[c].failedAt = th[c].pc
           /\ th'[c].lastRead # "true"
           /\ th'[c].exc = "Timeout" <=> th[c].elapsed >= WAIT_TIMEOUT

\* C20: termination of the condition waiter. Each wait always terminates:
\* it returns success at the first poll that observes the condition true;
\* if the condition is never observed true it ends with a timeout failure
\* at the first test of the loop after the deadline (60 s) has passed, the
\* tests being one sleep of 2 s and the time of the iteration's requests
\* apart; it never returns success without having observed the condition
\* true.
C20_WaitTerminates ==
    /\ [][WaitIteration(MainCaller)]_vars
    /\ [](/\ th[MainCaller].elapsed >= 0
          /\ \E t \in IterationTimes : th[MainCaller].elapsed < WAIT_TIMEOUT + t)
    /\ \A w \in Waits : (th[MainCaller].pc = w) ~> (th[MainCaller].pc # w)

\* a wait that polled until the deadline of 60 s, on a platform that takes
\* its time to answer, and ended with the timeout
C20_Witness ==
    /\ th[MainCaller].op = "create_server"
    /\ cluster.latency > 0
    /\ th[MainCaller].failedAt = "pvc_wait"
    /\ th[MainCaller].exc = "Timeout"
    /\ "task_succeeded" \in th[MainCaller].seen

\* C21: the enrichment of a task failure never masks it. When the directory
\* task is observed failed, the wait ends with the task failure, whether the
\* diagnostic fetch of the task's pods and log succeeds, is answered
\* NotFound or fails with any other platform error.
C21_EnrichmentNeverMasks ==
    \A c \in Callers :
        (th[c].op = "create_server" /\ "task_failed" \in th[c].seen) =>
            /\ th[c].pc \in {"rollback", "done"}
            /\ th[c].failedAt = "job_wait"
            /\ th[c].exc = "TaskFailure"

\* C22: a task failure is reported only for a terminal failure. The wait
\* raises the task failure only when the task was read in its failed
\* terminal state; while the platform retries after a failed attempt the
\* wait keeps polling.
C22_FailureOnlyWhenTerminal ==
    \A c \in Callers :
        (/\ th[c].op = "create_server"
         /\ th[c].failedAt = "job_wait"
         /\ th[c].exc = "TaskFailure")
        => "task_failed" \in th[c].seen

\* the volume of the call's storage identity was there when the call started
HadVolume(c) == Key("PV", PvName(th[c].pvc)) \in DOMAIN th[c].pre

\* C23: volume creation tolerates a pre-existing volume. If the volume
\* pv-<s> exists no create is issued and the step succeeds; a create is
\* issued only when the read answered NotFound; any other failure of the
\* read is propagated. So a provision retried after an attempt that created
\* the volume but not the claim completes storage setup without a conflict.
C23_VolumeTolerated ==
    \A c \in Callers :
        th[c].op = "create_server" =>
            /\ Issued(th[c].log, "create", {"PV"}) => ~HadVolume(c)
            /\ th[c].failedAt = "pv_create" => th[c].exc = "ApiFault"
            /\ (th[c].failedAt = "pv_create" /\ HadVolume(c))
                  => StepLog(c)[th[c].failLen] = <<"create", "Job", JobName(th[c].pvc)>>
            /\ (HadVolume(c) /\ th[c].pc \in {"pvc_create", "pvc_wait"})
                  => Exists(cluster, "PV", PvName(th[c].pvc))

\* a provision that found the volume of an earlier attempt without its
\* claim, issued no volume create and succeeded
C23_Witness ==
    \E c \in Callers :
        /\ Returned(c, "create_server")
        /\ th[c].result = "success"
        /\ HadVolume(c)
        /\ Key("PVC", th[c].pvc) \notin DOMAIN th[c].pre
        /\ ~Issued(th[c].log, "create", {"PV"})
        /\ Issued(th[c].log, "create", {"PVC"})

\* a request on one of the four resources of the ephemeral set of p
OnEphemeral(req, p) == Key(req[2], req[3]) \in EphemeralKeys(p)

\* C24: delete-then-create. In every provision call each create of the
\* Deployment, Service, Ingress and per-server config object comes after a
\* delete of the resource of the same name in the same call, and no patch is
\* ever issued for these four; so a provision for an identity whose
\* ephemeral set exists meets no conflict, and after a successful provision
\* the per-server config object carries the API key of that call.
C24_DeleteThenCreate ==
    \A c \in Callers :
        th[c].op = "create_server" =>
            LET p == th[c].deployment_name
                steps == StepLog(c)
            IN  /\ \A i \in DOMAIN steps :
                      (steps[i][1] = "create" /\ OnEphemeral(steps[i], p))
                      => \E j \in 1..(i - 1) :
                             steps[j] = <<"delete", steps[i][2], steps[i][3]>>
                /\ \A i \in DOMAIN th[c].log :
                      OnEphemeral(th[c].log[i], p) => th[c].log[i][1] # "patch"
                /\ th[c].failedAt \in {"servertap_cm", "deployment", "service", "ingress"}
                      => th[c].exc # "Conflict"
                /\ th[c].result = "success"
                      => /\ Exists(cluster, "ConfigMap", ServertapCmName(p))
                         /\ Phase(cluster, "ConfigMap", ServertapCmName(p)) = th[c].key

\* a successful provision for an identity whose whole ephemeral set, made by
\* an earlier call with another key, was there at the start
C24_Witness ==
    \E c \in Callers :
        /\ Returned(c, "create_server")
        /\ th[c].result = "success"
        /\ th[c].stale
        /\ th[c].key # ApiKeyOf(1)
        /\ Phase(cluster, "ConfigMap", ServertapCmName(th[c].deployment_name)) = th[c].key

\* the deletes of cleanup_all_resources, in order
TeardownDeletes(p, s) ==
    EphemeralDeletes(p)
    \o << <<"delete", "PVC", s>>, <<"delete", "PV", PvName(s)>> >>

\* C25: ordering of the full teardown. cleanup_all_resources issues the four
\* ephemeral deletes, then the claim delete, then the volume delete, each
\* only after the one before completed with success or NotFound. Nothing
\* is compensated: what was deleted before a failing delete stays deleted.
C25_TeardownOrdering ==
    \A c \in Callers :
        Returned(c, "delete_server") =>
            LET p == _sanitize_name(th[c].pod_name)
                s == _sanitize_name(th[c].pvc_name)
                log == th[c].log
            IN  /\ log # <<>>
                /\ IsPrefix(log, TeardownDeletes(p, s))
                /\ th[c].result = "success" => log = TeardownDeletes(p, s)
                /\ th[c].result # "success"
                      => /\ th[c].result = "ApiFault"
                         /\ \A i \in 1..(Len(log) - 1) :
                               ~Exists(cluster, log[i][2], log[i][3])

\* a teardown whose claim delete failed: the ephemeral set, which was
\* there, is gone, the claim and nothing after it was touched
C25_Witness ==
    \E c \in Callers :
        /\ Returned(c, "delete_server")
        /\ th[c].stale
        /\ th[c].result = "ApiFault"
        /\ Len(th[c].log) = 5
        /\ NoEphemeral(cluster, _sanitize_name(th[c].pod_name))
        /\ Exists(cluster, "PVC", _sanitize_name(th[c].pvc_name))
        /\ Exists(cluster, "PV", PvName(_sanitize_name(th[c].pvc_name)))

\* C26: server identities are not serialised. A provision and an
\* overlapping call for the same ServerIdentity (another provision, a
\* teardown, an ephemeral cleanup) interleave their requests, and a
\* provision can return success while part of its ephemeral set is absent;
\* whatever is absent then was deleted by a request of the other caller's
\* call: the initial cleanup or the rollback of a provision, or the deletes
\* of a teardown or cleanup.
C26_NoIdentitySerialization ==
    \A c \in Callers :
        (Returned(c, "create_server") /\ th[c].result = "success"
         /\ th[c].missing # {})
        => \E d \in Callers \ {c} :
              /\ th[d].op \in {"create_server", "delete_server",
                               "cleanup_ephemeral_resources"}
              /\ th[d].op = "create_server"
                 => th[d].deployment_name = th[c].deployment_name
              /\ \A k \in th[c].missing :
                    \E i \in DOMAIN th[d].log : th[d].log[i] = <<"delete", k[1], k[2]>>

\* a provision has returned success without its Deployment, which the
\* initial cleanup of an overlapping provision for the same identity, still
\* under way, deleted after the first had created it
C26_Witness ==
    \E c \in Callers : \E d \in Callers \ {c} :
        /\ Returned(c, "create_server")
        /\ th[c].result = "success"
        /\ Key("Deployment", th[c].deployment_name) \in th[c].missing
        /\ Issued(th[c].log, "create", {"Deployment"})
        /\ th[d].op = "create_server"
        /\ th[d].deployment_name = th[c].deployment_name
        /\ th[d].pc \notin {"done", "rollback"}
        /\ th[d].failedAt = "none"

\* two provisions of different callers for one storage identity that both
\* read the claim as absent
BothProbedAbsent(c, d) ==
    /\ c # d
    /\ th[c].op = "create_server" /\ th[d].op = "create_server"
    /\ th[c].pvc = th[d].pvc
    /\ th[c].probe = "False" /\ th[d].probe = "False"

ClaimCreateRefused(c) ==
    th[c].failedAt = "pvc_create" /\ th[c].exc = "Conflict"

\* C27: storage setup of one StorageIdentity is not serialised. Two
\* provisions can both read the claim as absent and both run storage setup;
\* the platform keeps objects by name, so one claim and one volume at most;
\* the two never both succeed, and when both send the claim create one of
\* them is refused with a conflict and that call fails.
C27_StorageRace ==
    \A c, d \in Callers :
        BothProbedAbsent(c, d)
        => /\ ~(th[c].result = "success" /\ th[d].result = "success")
           /\ (Issued(th[c].log, "create", {"PVC"})
                /\ Issued(th[d].log, "create", {"PVC"}))
              => \/ ClaimCreateRefused(c) /\ th[c].result # "success"
                 \/ ClaimCreateRefused(d) /\ th[d].result # "success"

\* both calls read the claim as absent, both ran the directory task and
\* sent the claim create; one has returned success and the other has
\* failed on the conflict
C27_Witness ==
    \E c, d \in Callers :
        /\ BothProbedAbsent(c, d)
        /\ Issued(th[c].log, "create", {"Job"}) /\ Issued(th[d].log, "create", {"Job"})
        /\ Issued(th[c].log, "create", {"PVC"}) /\ Issued(th[d].log, "create", {"PVC"})
        /\ Returned(c, "create_server") /\ th[c].result = "success"
        /\ Returned(d, "create_server") /\ ClaimCreateRefused(d)
        /\ Exists(cluster, "PVC", th[c].pvc)
        /\ Exists(cluster, "PV", PvName(th[c].pvc))

\* a full teardown that returned success, made right after a successful
\* provision with the same two names
RoundTrip(c) ==
    /\ Returned(c, "delete_server")
    /\ th[c].result = "success"
    /\ th[c].made # {}

\* C28 as stated: after the round trip nothing the provision created is
\* left except the shared config object; the directory task is gone too.
C28_RoundTripAsStated ==
    \A c \in Callers :
        RoundTrip(c)
        => \A k \in th[c].made \ {Key("ConfigMap", PAPER_CM)} :
              k \notin DOMAIN cluster.objs

\* C28: after a successful provision and a successful full teardown with
\* the same names, no Deployment, Service, Ingress, per-server config
\* object, claim or volume of those identities is left; the shared config
\* object stays, and so does the directory task when the provision created
\* one, until the platform removes it: no request of the teardown is for it.
C28_RoundTrip ==
    \A c \in Callers :
        RoundTrip(c)
        => LET p == _sanitize_name(th[c].pod_name)
               s == _sanitize_name(th[c].pvc_name)
           IN  /\ NoEphemeral(cluster, p)
               /\ ~Exists(cluster, "PVC", s)
               /\ ~Exists(cluster, "PV", PvName(s))
               /\ \A k \in th[c].made :
                     k \in DOMAIN cluster.objs
                     => k \in {Key("ConfigMap", PAPER_CM), Key("Job", JobName(s))}
               /\ ~Issued(th[c].log, "delete", {"Job"})

\* the round trip of a provision that set up the storage: everything is
\* gone but the shared config object and the directory task
C28_Witness ==
    \E c \in Callers :
        /\ RoundTrip(c)
        /\ {Key("PVC", _sanitize_name(th[c].pvc_name)),
            Key("Job", JobName(_sanitize_name(th[c].pvc_name))),
            Key("Deployment", _sanitize_name(th[c].pod_name))} \subseteq th[c].made
        /\ th[c].pod_name # _sanitize_name(th[c].pod_name)
        /\ Exists(cluster, "Job", JobName(_sanitize_name(th[c].pvc_name)))
        /\ Exists(cluster, "ConfigMap", PAPER_CM)
        /\ ~Exists(cluster, "PVC", _sanitize_name(th[c].pvc_name))

\* the requests of create_nfs_directory_job in the write log of a call
TaskRequests(c) ==
    SelectSeq(th[c].log, LAMBDA q : q[2] = "Job")

\* C29: a directory task left by an earlier attempt is deleted before the
\* new one is created: the method sends the delete and then the create,
\* the create is never refused with a conflict, and it leaves a task that
\* has just started, whatever the phase of the one the delete found; what
\* the wait then reports is the phase that new task has reached (and keeps
\* until the platform removes it, its time to live over).
C29_FreshTask ==
    /\ [](\A c \in Callers :
            th[c].op = "create_server" =>
               LET j == JobName(th[c].pvc)
               IN  /\ IsPrefix(TaskRequests(c),
                               << <<"delete", "Job", j>>, <<"create", "Job", j>> >>)
                   /\ th[c].failedAt = "nfs_job" => th[c].exc = "ApiFault"
                   /\ (th[c].pc = "nfs_job" /\ th[c].i = 1) => ~Exists(cluster, "Job", j)
                   /\ ("task_succeeded" \in th[c].seen /\ Exists(cluster, "Job", j))
                      => Phase(cluster, "Job", j) = "Succeeded"
                   /\ ("task_failed" \in th[c].seen /\ Exists(cluster, "Job", j))
                      => Phase(cluster, "Job", j) = "Failed")
    /\ [][\A c \in Callers :
            (th[c].pc = "nfs_job" /\ th'[c].pc = "job_wait")
            => LET j == JobName(th[c].pvc)
               IN  /\ Exists(cluster', "Job", j)
                   /\ Phase(cluster', "Job", j) = "Active"
                   /\ th'[c].seen = {}
                   /\ th[c].i = 1
                   /\ th[c].log[Len(th[c].log)] = <<"delete", "Job", j>>
                   /\ th'[c].log = th[c].log \o << <<"create", "Job", j>> >>]_vars

\* the retry found the failed task of an earlier attempt, deleted it, ran
\* a new one, and its wait has reported the success of the new one
C29_Witness ==
    \E c \in Callers :
        /\ th[c].op = "create_server"
        /\ th[c].pc = "pv_create"
        /\ th[c].staleTask = "Failed"
        /\ th[c].seen = {"task_succeeded"}
        /\ Len(TaskRequests(c)) = 2
        /\ Phase(cluster, "Job", JobName(th[c].pvc)) = "Succeeded"
====
